---- MODULE Spec2Model ----
(***************************************************************************)
(* A model of the rat PEG parser (github.com/rwxrob/rat): rat/x            *)
(* expressions and their canonical text, the Grammar that lowers them into *)
(* cached rules, and the CheckFunc closures that evaluate a rule against a *)
(* []rune buffer.                                                          *)
(*                                                                         *)
(* Go values are records [op, a, s, n]: op is the dynamic type, a the      *)
(* elements of an []any based rat/x type, s the runes of a string, n an    *)
(* int, a rune or the identity of a func(rune) bool.  Runes are Unicode    *)
(* code points.  Texts (rule names, error messages) are strings.           *)
(***************************************************************************)
EXTENDS Integers, Sequences, FiniteSets, TLC

(* ------------------------------ bounds --------------------------------- *)

\* longest buffer that is checked
MaxLen == 3

\* most rule checks one top-level Check may perform before it is cut off
MaxCalls == 40

\* most rule objects a grammar may hold before lowering stops
MaxRules == 3

\* longest buffer checked while the grammar is still being built
MaxScan == 1

\* most children of a sequence that is printed
MaxArgs == 3

\* goroutines that scan one grammar at the same time
MaxThreads == 2

(* ------------------------------ runes ---------------------------------- *)

RuneA == 97
RuneB == 98
RuneQuote == 34
RuneBackslash == 92

\* the runes buffers are made of
BufRunes == {RuneA, RuneB}

\* the rune a conversion to []rune puts in the place of a byte that is not
\* part of a well-formed UTF-8 sequence
RuneError == 65533

\* the bytes strings are made of: a, b, the two bytes of U+00E9, and a byte
\* that no UTF-8 sequence holds
StrBytes == {97, 98, 195, 169, 255}

\* a continuation byte, 10xxxxxx
IsCont(b) == b >= 128 /\ b < 192

\* the first byte 110xxxxx of a two-byte sequence (0xC0 and 0xC1 are overlong)
IsLead2(b) == b >= 194 /\ b < 224

\* []rune(string(v)): bytes under 0x80 are their rune, a two-byte sequence
\* is decoded, and every other byte becomes one RuneError
RECURSIVE Runes(_)
Runes(v) ==
    IF v = <<>> THEN <<>>
    ELSE IF v[1] < 128 THEN <<v[1]>> \o Runes(Tail(v))
    ELSE IF IsLead2(v[1]) /\ Len(v) >= 2 /\ IsCont(v[2])
         THEN <<(v[1] % 32) * 64 + (v[2] % 64)>> \o Runes(Tail(Tail(v)))
    ELSE <<RuneError>> \o Runes(Tail(v))

\* string(rune) for the runes of the model
RuneStr(r) ==
    CASE r = 97 -> "a"
      [] r = 98 -> "b"
      [] r = 34 -> "\""
      [] r = 92 -> "\\"
      [] r = 39 -> "'"
      [] r = 45 -> "-"
      [] r = 48 -> "0"
      [] r = 49 -> "1"
      [] r = 50 -> "2"
      [] r = 51 -> "3"
      [] r = 52 -> "4"
      [] r = 53 -> "5"
      [] r = 54 -> "6"
      [] r = 55 -> "7"
      [] r = 56 -> "8"
      [] r = 57 -> "9"
      [] r = 65 -> "A"
      [] r = 73 -> "I"
      [] r = 82 -> "R"
      [] r = 99 -> "c"
      [] r = 101 -> "e"
      [] r = 102 -> "f"
      [] r = 110 -> "n"
      [] r = 115 -> "s"
      [] r = 117 -> "u"
      [] OTHER -> "?"

\* string([]rune)
RECURSIVE Txt(_)
Txt(s) == IF s = <<>> THEN "" ELSE RuneStr(Head(s)) \o Txt(Tail(s))

\* the runes of strconv.Itoa(n) / fmt %v of an int
RECURSIVE NatRunes(_)
NatRunes(n) == IF n < 10 THEN <<48 + n>> ELSE NatRunes(n \div 10) \o <<48 + (n % 10)>>

IntRunes(n) == IF n < 0 THEN <<45>> \o NatRunes(-n) ELSE NatRunes(n)

Itoa(n) == Txt(IntRunes(n))

\* the runes between the double quotes of fmt %q of a string
RECURSIVE EscRunes(_)
EscRunes(s) ==
    IF s = <<>> THEN <<>>
    ELSE (IF Head(s) \in {RuneQuote, RuneBackslash}
            THEN <<RuneBackslash, Head(s)>> ELSE <<Head(s)>>) \o EscRunes(Tail(s))

\* fmt %q of a string
Quote(s) == "\"" \o Txt(EscRunes(s)) \o "\""

\* fmt %q of a rune
QuoteRune(r) == "'" \o (IF r = RuneBackslash THEN "\\\\" ELSE RuneStr(r)) \o "'"

(* ---------------------------- Go values -------------------------------- *)

Val(op, a, s, n) == [op |-> op, a |-> a, s |-> s, n |-> n]

GoString(s) == Val("string", <<>>, s, 0)
GoRune(r) == Val("rune", <<>>, <<>>, r)
GoInt(n) == Val("int", <<>>, <<>>, n)
GoFunc(f) == Val("func", <<>>, <<>>, f)
Expr(op, a) == Val(op, a, <<>>, 0)

\* the func(rune) bool values of the model: 1 is a named function that
\* holds of 'a', 2 is an anonymous function (runtime name func1)
IsRuneA == 1
IsAnon == 2

\* the runes of the name: IsRuneA and func1
FuncRunes(f) ==
    IF f = IsRuneA THEN <<73, 115, 82, 117, 110, 101, 65>> ELSE <<102, 117, 110, 99, 49>>

FuncName(f) == Txt(FuncRunes(f))

FuncHolds(f, r) == IF f = IsRuneA THEN r = RuneA ELSE r = RuneB

XTypes == {"N", "Sav", "Val", "Ref", "Is", "Seq", "One", "Str", "Mmx",
           "See", "Not", "To", "Any", "Rng", "End"}

(* --------------------------- x/text.go --------------------------------- *)

UsageN == "\"%!USAGE: x.N{name, rule}\""
UsageSav == "\"%!USAGE: x.Sav{name}\""
UsageVal == "\"%!USAGE: x.Val{name}\""
UsageRef == "\"%!USAGE: x.Ref{name}\""
UsageIs == "\"%!USAGE: namedFunc or x.IsFunc or x.Is{namedFunc}\""
UsageAny == "\"%!USAGE: x.Any{n} or x.Any{m, n} or x.Any{m, 0}\""
UsageStr == "\"%!USAGE: x.Str{...any}\""
UsageSeq == "\"%!USAGE: x.Seq{...rule}\""
UsageOne == "\"%!USAGE: x.One{...rule}\""
UsageMmx == "\"%!USAGE: x.Mmx{m, n, rule}\""
UsageSee == "\"%!USAGE: x.See{rule}\""
UsageNot == "\"%!USAGE: x.Not{rule}\""
UsageTo == "\"%!USAGE: x.To{rule}\""
UsageRng == "\"%!USAGE: x.Rng{beg, end}\""
UsageEnd == "\"%!USAGE: x.End{}\""

(* ------------------------ x: canonical text ---------------------------- *)

RECURSIVE String(_), JoinStr(_), CommaList(_), CombineRun(_, _, _, _)

\* the case list of the type switch in CombineStr: every rat/x type but Str
NotStrCompat == XTypes \ {"Str"}

\* CombineStr's loop over args[k..]: rules and comb are its accumulators
CombineRun(args, rules, comb, combining) ==
    IF args = <<>>
    THEN IF combining THEN Append(rules, Expr("Str", comb)) ELSE rules
    ELSE LET it == Head(args) IN
         IF it.op \in NotStrCompat
         THEN CombineRun(Tail(args),
                         Append(IF combining THEN Append(rules, Expr("Str", comb)) ELSE rules, it),
                         <<>>, FALSE)
         ELSE CombineRun(Tail(args), rules, Append(comb, it), TRUE)

CombineStr(args) == CombineRun(args, <<>>, <<>>, FALSE)

\* String(it)[7 : len-2] as runes, for the values whose String is x.Str{"..."}
InnerStr(it) ==
    CASE it.op = "string" -> EscRunes(it.s)
      [] it.op = "rune" -> EscRunes(<<it.n>>)
      [] it.op = "int" -> IntRunes(it.n)
      [] it.op = "Str" /\ Len(it.a) >= 1 -> JoinStr(it.a)
      [] it.op = "func" -> SubSeq(FuncRunes(it.n), 3, Len(FuncRunes(it.n)) - 1)
      [] OTHER -> <<63>>

JoinStr(args) == IF args = <<>> THEN <<>> ELSE InnerStr(Head(args)) \o JoinStr(Tail(args))

\* String(v[0]) + ", " + String(v[1]) + ...
CommaList(args) ==
    IF Len(args) = 1 THEN String(Head(args))
    ELSE String(Head(args)) \o ", " \o CommaList(Tail(args))

IsInt(v) == v.op = "int"
IsStringVal(v) == v.op = "string"
IsRuneVal(v) == v.op = "rune"

NString(it) ==
    IF Len(it.a) # 2 THEN UsageN
    ELSE IF ~IsStringVal(it.a[1]) THEN UsageN
    ELSE "x.N{" \o Quote(it.a[1].s) \o ", " \o String(it.a[2]) \o "}"

KeyString(it, tag, usage) ==
    IF Len(it.a) = 1
    THEN IF ~IsStringVal(it.a[1]) THEN usage
         ELSE tag \o "{" \o Quote(it.a[1].s) \o "}"
    ELSE usage

IsString(it) ==
    IF Len(it.a) # 1 THEN UsageIs
    ELSE IF it.a[1].op = "func"
         THEN IF it.a[1].n = IsAnon THEN UsageIs
              ELSE "x.Is{" \o FuncName(it.a[1].n) \o "}"
         ELSE UsageIs

SeqString(it) ==
    CASE Len(it.a) = 1 -> String(it.a[1])
      [] Len(it.a) = 0 -> UsageSeq
      [] OTHER -> LET rules == CombineStr(it.a) IN
                  IF Len(rules) = 1 THEN String(rules[1])
                  ELSE "x.Seq{" \o CommaList(rules) \o "}"

OneString(it) ==
    CASE Len(it.a) = 1 -> String(it.a[1])
      [] Len(it.a) = 0 -> UsageOne
      [] OTHER -> "x.One{" \o CommaList(it.a) \o "}"

StrString(it) ==
    CASE Len(it.a) = 0 -> UsageStr
      [] Len(it.a) = 1 -> String(it.a[1])
      [] OTHER -> "x.Str{\"" \o Txt(JoinStr(it.a)) \o "\"}"

MmxString(it) ==
    IF Len(it.a) # 3 THEN UsageMmx
    ELSE IF ~IsInt(it.a[1]) THEN UsageMmx
    ELSE IF ~IsInt(it.a[2]) THEN UsageMmx
    ELSE IF it.a[2].n < it.a[1].n /\ it.a[2].n # -1 THEN UsageMmx
    ELSE "x.Mmx{" \o Itoa(it.a[1].n) \o ", " \o Itoa(it.a[2].n) \o ", "
            \o String(it.a[3]) \o "}"

OneArgString(it, tag, usage) ==
    IF Len(it.a) # 1 THEN usage ELSE tag \o "{" \o String(it.a[1]) \o "}"

AnyString(it) ==
    CASE Len(it.a) = 1 ->
            IF ~IsInt(it.a[1]) THEN UsageAny ELSE "x.Any{" \o Itoa(it.a[1].n) \o "}"
      [] Len(it.a) = 2 ->
            IF ~IsInt(it.a[1]) THEN UsageAny
            ELSE IF ~IsInt(it.a[2]) THEN UsageAny
            ELSE "x.Any{" \o Itoa(it.a[1].n) \o ", " \o Itoa(it.a[2].n) \o "}"
      [] OTHER -> UsageAny

RngString(it) ==
    IF Len(it.a) # 2 THEN UsageRng
    ELSE IF ~IsRuneVal(it.a[1]) THEN UsageRng
    ELSE IF ~IsRuneVal(it.a[2]) THEN UsageRng
    ELSE "x.Rng{" \o QuoteRune(it.a[1].n) \o ", " \o QuoteRune(it.a[2].n) \o "}"

EndString(it) == IF Len(it.a) > 0 THEN UsageEnd ELSE "x.End{}"

\* x.String: the canonical text of any value
String(it) ==
    CASE it.op = "N" -> NString(it)
      [] it.op = "Sav" -> KeyString(it, "x.Sav", UsageSav)
      [] it.op = "Val" -> KeyString(it, "x.Val", UsageVal)
      [] it.op = "Ref" -> KeyString(it, "x.Ref", UsageRef)
      [] it.op = "Is" -> IsString(it)
      [] it.op = "Seq" -> SeqString(it)
      [] it.op = "One" -> OneString(it)
      [] it.op = "Str" -> StrString(it)
      [] it.op = "Mmx" -> MmxString(it)
      [] it.op = "See" -> OneArgString(it, "x.See", UsageSee)
      [] it.op = "Not" -> OneArgString(it, "x.Not", UsageNot)
      [] it.op = "To" -> OneArgString(it, "x.To", UsageTo)
      [] it.op = "Any" -> AnyString(it)
      [] it.op = "Rng" -> RngString(it)
      [] it.op = "End" -> EndString(it)
      [] it.op = "string" -> "x.Str{" \o Quote(it.s) \o "}"
      [] it.op = "rune" -> "x.Str{" \o Quote(<<it.n>>) \o "}"
      [] it.op = "func" -> "x.Is{" \o FuncName(it.n) \o "}"
      [] OTHER -> "x.Str{\"" \o Itoa(it.n) \o "\"}"

(* ------------------------------ Grammar -------------------------------- *)

\* A CheckFunc closure: k names the Make* method that built it, the other
\* fields are the variables it encloses (sub-rules are heap addresses).
Clo(k, subs, s, m, n, key, x) ==
    [k |-> k, subs |-> subs, s |-> s, m |-> m, n |-> n, key |-> key, x |-> x]

\* a Rule whose Check field was never assigned
NilCheck == Clo("nil", <<>>, <<>>, 0, 0, "", "")

DefaultRuleName == "Rule"

\* ErrExpected{v}.Error() for a rat/x expression v
ErrExpected(in) == "expected: " \o String(in)

\* Grammar.Init: heap holds the Rule objects the grammar's maps point to
\* (a *Rule is an index of heap, 0 is nil).  nomaps: Rules and Saved are
\* nil maps; dead: an assignment to an entry of a nil map has panicked.
InitGrammar ==
    [heap |-> <<>>, Rules |-> <<>>, Saved |-> <<>>, Main |-> 0, ruleid |-> 0,
     nomaps |-> FALSE, dead |-> FALSE]

\* new(Grammar): the zero value, Init not called
ZeroGrammar == [InitGrammar EXCEPT !.nomaps = TRUE]

Has(map, key) == key \in DOMAIN map

Put(map, key, v) == (key :> v) @@ map

\* the outcome of a Make* method: the grammar after it, the *Rule it
\* returned, and whether it panicked instead of returning
Panic(g) == [g |-> g, rule |-> 0, panic |-> TRUE]
Ok(g, rule) == IF g.dead THEN Panic(g) ELSE [g |-> g, rule |-> rule, panic |-> FALSE]

\* AddRule keyed to the rule's Text
MutAddRule(g, rule) ==
    LET named == g.heap[rule].Name # ""
        id == IF named THEN g.ruleid ELSE g.ruleid + 1
        name == IF named THEN g.heap[rule].Name ELSE DefaultRuleName \o Itoa(id)
    IN IF g.nomaps THEN [g EXCEPT !.dead = TRUE]
       ELSE [g EXCEPT !.ruleid = id,
                      !.heap[rule].Name = name,
                      !.Rules = Put(g.Rules, g.heap[rule].Text, rule)]

AddRule(g, rule) ==
    LET named == g.heap[rule].Name # ""
        id == IF named THEN g.ruleid ELSE g.ruleid + 1
        name == IF named THEN g.heap[rule].Name ELSE DefaultRuleName \o Itoa(id)
    IN IF g.nomaps THEN [g EXCEPT !.dead = TRUE]
       ELSE [g EXCEPT !.ruleid = id,
                      !.heap[rule].Name = name,
                      !.Rules = Put(g.Rules, name, rule)]

\* rule = &Rule{Name: name, Text: text}
Alloc(g, name, text) ==
    [g EXCEPT !.heap = Append(g.heap, [Name |-> name, Text |-> text, Check |-> NilCheck])]

\* rule = &Rule{Name: name, Text: text}; g.AddRule(rule)
AllocAdd(g, name, text) == AddRule(Alloc(g, name, text), Len(g.heap) + 1)

SetCheck(g, rule, clo) == [g EXCEPT !.heap[rule].Check = clo]

StrName(val) == "x.Str{\"" \o Txt(val) \o "\"}"

\* MakeStr for a string argument val
MakeStrVal(g, val) ==
    LET name == StrName(val)
        rule == Len(g.heap) + 1
    IN IF Has(g.Rules, name) THEN Ok(g, g.Rules[name])
       ELSE Ok(SetCheck(AllocAdd(g, name, name), rule,
                        Clo("Str", <<>>, val, 0, 0, "", "")), rule)

MakeStr(g, in) ==
    CASE in.op = "string" -> MakeStrVal(g, in.s)
      [] in.op = "rune" -> MakeStrVal(g, <<in.n>>)
      [] in.op = "Str" -> MakeStrVal(g, JoinStr(in.a))
      [] OTHER -> MakeStrVal(g, <<>>)

RECURSIVE MakeRule(_, _), MakeEach(_, _, _, _)

\* irule, has := g.Rules[x.String(it)]; if !has { irule = g.MakeRule(it) }
Sub(g, it) ==
    LET iname == String(it) IN
    IF Has(g.Rules, iname) THEN Ok(g, g.Rules[iname]) ELSE MakeRule(g, it)

\* rule.Check = the closure clo over the sub-rule that o returned; a panic
\* while making the sub-rule unwinds
WithSub(o, rule, clo) ==
    IF o.panic THEN o
    ELSE Ok(SetCheck(o.g, rule, [clo EXCEPT !.subs = <<o.rule>>]), rule)

\* rule.Check = the closure clo over the sub-rules that e collected
WithSubs(e, rule, clo) ==
    IF e.panic THEN Panic(e.g)
    ELSE Ok(SetCheck(e.g, rule, [clo EXCEPT !.subs = e.rules]), rule)

\* one pass of the loops of MakeSeq and MakeOne, o being the sub-rule made
\* for Head(items) and has whether it had been cached before
EachNext(o, has, items, rules, more) ==
    IF o.panic THEN [g |-> o.g, rules |-> rules, panic |-> TRUE]
    ELSE MakeEach(IF more /\ ~has THEN AddRule(o.g, o.rule) ELSE o.g,
                  Tail(items), Append(rules, o.rule), more)

\* the loops of MakeSeq and MakeOne over their arguments; more is TRUE for
\* MakeOne, which also calls AddRule on every rule it had to make
MakeEach(g, items, rules, more) ==
    IF items = <<>> THEN [g |-> g, rules |-> rules, panic |-> FALSE]
    ELSE EachNext(Sub(g, Head(items)), Has(g.Rules, String(Head(items))),
                  items, rules, more)

\* the end of MakeNamed, o being the rule made for in[1]
NamedOver(o, name, text) ==
    IF o.panic THEN o
    ELSE Ok(SetCheck(AllocAdd(o.g, name, text), Len(o.g.heap) + 1,
                     Clo("Named", <<o.rule>>, <<>>, 0, 0, name, "")),
            Len(o.g.heap) + 1)

MakeNamed(g, in) ==
    LET text == String(in) IN
    IF Has(g.Rules, text) THEN Ok(g, g.Rules[text])
    ELSE IF Len(in.a) # 2 THEN Panic(g)
    ELSE IF ~IsStringVal(in.a[1]) THEN Panic(g)
    ELSE NamedOver(Sub(g, in.a[2]), Txt(in.a[1].s), text)

MakeRef(g, in) ==
    LET name == String(in)
        rule == Len(g.heap) + 1
    IN IF Has(g.Rules, name) THEN Ok(g, g.Rules[name])
       ELSE IF Len(in.a) # 1 THEN Panic(g)
       ELSE IF ~IsStringVal(in.a[1]) THEN Panic(g)
       ELSE Ok(SetCheck(AllocAdd(g, name, name), rule,
                   Clo("Ref", <<>>, <<>>, 0, 0, Txt(in.a[1].s), ErrExpected(in))), rule)

\* MakeSave and MakeVal: the rule is cached before the arguments are examined
MakeKeyed(g, in, kind) ==
    LET name == String(in)
        rule == Len(g.heap) + 1
        g1 == AllocAdd(g, name, name)
    IN IF Has(g.Rules, name) THEN Ok(g, g.Rules[name])
       ELSE IF Len(in.a) # 1 THEN Panic(g1)
       ELSE IF ~IsStringVal(in.a[1]) THEN Panic(g1)
       ELSE Ok(SetCheck(g1, rule,
                   Clo(kind, <<>>, <<>>, 0, 0, Txt(in.a[1].s), ErrExpected(in))), rule)

MakeSave(g, in) == MakeKeyed(g, in, "Save")

MakeVal(g, in) == MakeKeyed(g, in, "Val")

MakeIs(g, in) ==
    IF Len(in.a) # 1 THEN Panic(g)
    ELSE IF in.a[1].op # "func" THEN Panic(g)
    ELSE LET name == String(in)
             rule == Len(g.heap) + 1
         IN IF Has(g.Rules, name) THEN Ok(g, g.Rules[name])
            ELSE Ok(AddRule(SetCheck(Alloc(g, name, name), rule,
                        Clo("Is", <<>>, <<>>, 0, in.a[1].n, "", ErrExpected(in))), rule), rule)

\* MakeSeq once in is known to have several arguments
MakeSeqOf(g, seq) ==
    LET name == String(seq)
        rule == Len(g.heap) + 1
    IN IF Has(g.Rules, name) THEN Ok(g, g.Rules[name])
       ELSE WithSubs(MakeEach(AllocAdd(g, name, name), seq.a, <<>>, FALSE), rule,
                     Clo("Seq", <<>>, <<>>, 0, 0, "", ""))

MakeSeq(g, in) ==
    IF Len(in.a) = 1 THEN MakeRule(g, in.a[1])
    ELSE IF Len(CombineStr(in.a)) = 1 THEN MakeRule(g, CombineStr(in.a)[1])
    ELSE MakeSeqOf(g, Expr("Seq", CombineStr(in.a)))

MakeOne(g, one) ==
    LET name == String(one)
        rule == Len(g.heap) + 1
        g1 == AllocAdd(g, name, name)
    IN IF Has(g.Rules, name) THEN Ok(g, g.Rules[name])
       ELSE IF Len(one.a) < 1 THEN Panic(g1)
       ELSE IF Len(one.a) = 1 THEN MakeRule(g1, one.a[1])
       ELSE WithSubs(MakeEach(g1, one.a, <<>>, TRUE), rule,
                     Clo("One", <<>>, <<>>, 0, 0, "", ErrExpected(one)))

MakeMmx(g, in) ==
    LET name == String(in)
        rule == Len(g.heap) + 1
        g1 == AllocAdd(g, name, name)
    IN IF Has(g.Rules, name) THEN Ok(g, g.Rules[name])
       ELSE IF Len(in.a) # 3 THEN Panic(g1)
       ELSE IF ~IsInt(in.a[1]) \/ in.a[1].n < 0 THEN Panic(g1)
       ELSE IF ~IsInt(in.a[2]) \/ (in.a[2].n < in.a[1].n /\ in.a[2].n # -1) THEN Panic(g1)
       ELSE WithSub(Sub(g1, in.a[3]), rule,
                    Clo("Mmx", <<>>, <<>>, in.a[1].n, in.a[2].n, "", ErrExpected(in)))

\* MakeSee, MakeNot and MakeTo differ only in the closure they build
MakeOneArg(g, in, kind) ==
    LET name == String(in)
        rule == Len(g.heap) + 1
        g1 == AllocAdd(g, name, name)
    IN IF Has(g.Rules, name) THEN Ok(g, g.Rules[name])
       ELSE IF Len(in.a) # 1 THEN Panic(g1)
       ELSE WithSub(Sub(g1, in.a[1]), rule,
                    Clo(kind, <<>>, <<>>, 0, 0, "", ErrExpected(in)))

MakeSee(g, in) == MakeOneArg(g, in, "See")

MakeNot(g, in) == MakeOneArg(g, in, "Not")

MakeTo(g, in) == MakeOneArg(g, in, "To")

makeAnyN(g, in) ==
    IF ~IsInt(in.a[1]) THEN Panic(g)
    ELSE LET name == String(in)
             rule == Len(g.heap) + 1
         IN Ok(SetCheck(AllocAdd(g, name, name), rule,
                  Clo("AnyN", <<>>, <<>>, 0, in.a[1].n, "", ErrExpected(in))), rule)

makeAnyMmx(g, in) ==
    IF ~IsInt(in.a[1]) THEN Panic(g)
    ELSE IF ~IsInt(in.a[2]) THEN Panic(g)
    ELSE IF in.a[1].n >= in.a[2].n \/ in.a[2].n <= 0 THEN Panic(g)
    ELSE LET name == String(in)
             rule == Len(g.heap) + 1
         IN Ok(SetCheck(AllocAdd(g, name, name), rule,
                  Clo("AnyMmx", <<>>, <<>>, in.a[1].n, in.a[2].n, "", ErrExpected(in))), rule)

MakeAny(g, in) ==
    LET name == String(in) IN
    IF Has(g.Rules, name) THEN Ok(g, g.Rules[name])
    ELSE CASE Len(in.a) = 1 -> makeAnyN(g, in)
           [] Len(in.a) = 2 -> makeAnyMmx(g, in)
           [] OTHER -> Panic(g)

MakeRng(g, in) ==
    LET name == String(in)
        rule == Len(g.heap) + 1
        g1 == AllocAdd(g, name, name)
    IN IF Has(g.Rules, name) THEN Ok(g, g.Rules[name])
       ELSE IF Len(in.a) # 2 THEN Panic(g1)
       ELSE IF ~IsRuneVal(in.a[1]) THEN Panic(g1)
       ELSE IF ~IsRuneVal(in.a[2]) THEN Panic(g1)
       ELSE Ok(SetCheck(g1, rule,
                   Clo("Rng", <<>>, <<>>, in.a[1].n, in.a[2].n, "", ErrExpected(in))), rule)

MakeEnd(g, in) ==
    IF Len(in.a) # 0 THEN Panic(g)
    ELSE LET name == String(in)
             rule == Len(g.heap) + 1
         IN Ok(AddRule(SetCheck(Alloc(g, name, name), rule,
                  Clo("End", <<>>, <<>>, 0, 0, "", ErrExpected(in))), rule), rule)

MakeRule(g, in) ==
    CASE in.op \in {"string", "rune", "Str"} -> MakeStr(g, in)
      [] in.op = "N" -> MakeNamed(g, in)
      [] in.op = "Sav" -> MakeSave(g, in)
      [] in.op = "Val" -> MakeVal(g, in)
      [] in.op = "Ref" -> MakeRef(g, in)
      [] in.op = "Is" -> MakeIs(g, in)
      [] in.op = "func" -> MakeIs(g, Expr("Is", <<in>>))
      [] in.op = "Seq" -> MakeSeq(g, in)
      [] in.op = "One" -> MakeOne(g, in)
      [] in.op = "Mmx" -> MakeMmx(g, in)
      [] in.op = "See" -> MakeSee(g, in)
      [] in.op = "Not" -> MakeNot(g, in)
      [] in.op = "To" -> MakeTo(g, in)
      [] in.op = "Any" -> MakeAny(g, in)
      [] in.op = "Rng" -> MakeRng(g, in)
      [] in.op = "End" -> MakeEnd(g, in)
      [] OTHER -> MakeStrVal(g, <<39, in.n, 39>>)

\* the end of Pack, o being the rule made: g.Main = rule; g.AddRule(rule)
PackMain(o) ==
    IF o.panic THEN o
    ELSE Ok(AddRule([o.g EXCEPT !.Main = o.rule], o.rule), o.rule)

\* Grammar.Pack
Pack(g, in) ==
    IF Len(in) = 0 THEN Panic(g)
    ELSE PackMain(IF Len(in) = 1 THEN MakeRule(g, in[1]) ELSE MakeSeq(g, Expr("Seq", in)))

(* ---------------------------- check engine ----------------------------- *)

\* rat.Result without R: every Result of one check aliases the same buffer.
\* X is the error's message, "" when X is nil.
Res(N, B, E, X, C) == [N |-> N, B |-> B, E |-> E, X |-> X, C |-> C]

NoRes == Res("", 0, 0, "", <<>>)

\* What a running check carries: the grammar (Save writes to it), the log
\* of the rule checks begun so far (d is the nesting depth of the call, res
\* its Result once done, before and after the saved-literal table when the
\* call began and when it returned), and st: "ok" while running normally, "panic"
\* after a runtime panic, "cut" once MaxCalls checks have been begun.
InitCtx(g) == [g |-> g, log |-> <<>>, st |-> "ok"]

Ret(c, res) == [c |-> c, res |-> res]

Stop(c, st) == [c |-> [c EXCEPT !.st = st], res |-> NoRes]

\* StrLoop, but a mismatch puts i back to where the literal began
RECURSIVE MutStrLoop(_, _, _, _)
MutStrLoop(runes, r, i, n) ==
    IF i < Len(r) /\ n < Len(runes)
    THEN IF r[i + 1] # runes[n + 1] THEN <<i - n, n>>
         ELSE MutStrLoop(runes, r, i + 1, n + 1)
    ELSE <<i, n>>

\* the for loop of the MakeStr closure: <<i, n>> when it ends
RECURSIVE StrLoop(_, _, _, _)
StrLoop(runes, r, i, n) ==
    IF i < Len(r) /\ n < Len(runes)
    THEN IF r[i + 1] # runes[n + 1] THEN <<i, n>>
         ELSE StrLoop(runes, r, i + 1, n + 1)
    ELSE <<i, n>>

CheckStr(f, r, i) ==
    LET e == StrLoop(f.s, r, i, 0)
        n == e[2]
    IN Res("", i, e[1], IF n < Len(f.s) THEN "expected: " \o RuneStr(f.s[n + 1]) ELSE "", <<>>)

CheckIs(f, r, i) ==
    IF i < Len(r) /\ FuncHolds(f.n, r[i + 1]) THEN Res("", i, i + 1, "", <<>>)
    ELSE Res("", i, i, f.x, <<>>)

CheckAnyN(f, r, i) ==
    IF i + f.n > Len(r) THEN Res("", i, Len(r) - 1, f.x, <<>>)
    ELSE Res("", i, i + f.n, "", <<>>)

CheckAnyMmx(f, r, i) ==
    IF i + f.m > Len(r) THEN Res("", i, Len(r) - 1, f.x, <<>>)
    ELSE IF i + f.n < Len(r) THEN Res("", i, i + f.n, "", <<>>)
    ELSE Res("", i, Len(r), "", <<>>)

CheckRngAt(f, r, i) ==
    IF f.m <= r[i + 1] /\ r[i + 1] <= f.n THEN Res("", i, i + 1, "", <<>>)
    ELSE Res("", i, i, f.x, <<>>)

CheckEnd(f, r, i) ==
    IF i = Len(r) THEN Res("", i, i, "", <<>>) ELSE Res("", i, i, f.x, <<>>)

RECURSIVE CheckRule(_, _, _, _, _), SeqLoop(_, _, _, _, _, _, _),
          OneLoop(_, _, _, _, _, _, _), MmxLoop(_, _, _, _, _, _, _),
          ToLoop(_, _, _, _, _, _)

\* SeqLoop, but a failing sub-result is left out of the children
MutSeqLoop(c, rules, r, start, i, d, results) ==
    IF rules = <<>> THEN Ret(c, Res("", start, i, "", results))
    ELSE LET o == CheckRule(c, Head(rules), r, i, d + 1) IN
         IF o.c.st # "ok" THEN o
         ELSE IF o.res.X # ""
              THEN Ret(o.c, Res("", start, o.res.E, o.res.X, results))
              ELSE SeqLoop(o.c, Tail(rules), r, start, o.res.E, d, Append(results, o.res))

\* the loop of the MakeSeq closure over rules[k..]
SeqLoop(c, rules, r, start, i, d, results) ==
    IF rules = <<>> THEN Ret(c, Res("", start, i, "", results))
    ELSE LET o == CheckRule(c, Head(rules), r, i, d + 1) IN
         IF o.c.st # "ok" THEN o
         ELSE IF o.res.X # ""
              THEN Ret(o.c, Res("", start, o.res.E, o.res.X, Append(results, o.res)))
              ELSE SeqLoop(o.c, Tail(rules), r, start, o.res.E, d, Append(results, o.res))

\* OneLoop, but a failed alternative advances the position of the next one
MutOneLoop(c, f, rules, r, i, d, result) ==
    IF rules = <<>> THEN Ret(c, [result EXCEPT !.X = f.x])
    ELSE LET o == CheckRule(c, Head(rules), r, i, d + 1) IN
         IF o.c.st # "ok" THEN o
         ELSE IF o.res.X = ""
              THEN Ret(o.c, [result EXCEPT !.E = o.res.E, !.C = <<o.res>>])
              ELSE OneLoop(o.c, f, Tail(rules), r, o.res.E, d, result)

\* the loop of the MakeOne closure over rules[k..]
OneLoop(c, f, rules, r, i, d, result) ==
    IF rules = <<>> THEN Ret(c, [result EXCEPT !.X = f.x])
    ELSE LET o == CheckRule(c, Head(rules), r, i, d + 1) IN
         IF o.c.st # "ok" THEN o
         ELSE IF o.res.X = ""
              THEN Ret(o.c, [result EXCEPT !.E = o.res.E, !.C = <<o.res>>])
              ELSE OneLoop(o.c, f, Tail(rules), r, i, d, result)

\* what the MakeMmx closure does once its loop has ended with res
MmxEnd(f, result, count, res) ==
    IF f.m <= count /\ count <= f.n
    THEN IF res.X = "" THEN [result EXCEPT !.C = Append(@, res)] ELSE result
    ELSE [result EXCEPT !.X = f.x]

\* MmxLoop, but the loop ends when count > max
MutMmxLoop(c, f, r, i, d, result, count) ==
    LET o == CheckRule(c, f.subs[1], r, i, d + 1) IN
    IF o.c.st # "ok" THEN o
    ELSE IF o.res.X # "" \/ count > f.n
         THEN Ret(o.c, MmxEnd(f, result, count, o.res))
         ELSE MmxLoop(o.c, f, r, o.res.E, d,
                      [result EXCEPT !.C = Append(@, o.res), !.E = o.res.E],
                      count + 1)

\* the for loop of the MakeMmx closure
MmxLoop(c, f, r, i, d, result, count) ==
    LET o == CheckRule(c, f.subs[1], r, i, d + 1) IN
    IF o.c.st # "ok" THEN o
    ELSE IF o.res.X # "" \/ count = f.n
         THEN Ret(o.c, MmxEnd(f, result, count, o.res))
         ELSE MmxLoop(o.c, f, r, o.res.E, d,
                      [result EXCEPT !.C = Append(@, o.res), !.E = o.res.E],
                      count + 1)

\* ToLoop, but the match that ends the loop is consumed
MutToLoop(c, f, r, i, d, result) ==
    IF i < Len(r)
    THEN LET o == CheckRule(c, f.subs[1], r, i, d + 1) IN
         IF o.c.st # "ok" THEN o
         ELSE IF o.res.X = "" THEN Ret(o.c, [result EXCEPT !.E = o.res.E])
              ELSE ToLoop(o.c, f, r, i + 1, d, [result EXCEPT !.E = @ + 1])
    ELSE Ret(c, [result EXCEPT !.X = f.x])

\* the for loop of the MakeTo closure
ToLoop(c, f, r, i, d, result) ==
    IF i < Len(r)
    THEN LET o == CheckRule(c, f.subs[1], r, i, d + 1) IN
         IF o.c.st # "ok" THEN o
         ELSE IF o.res.X = "" THEN Ret(o.c, result)
              ELSE ToLoop(o.c, f, r, i + 1, d, [result EXCEPT !.E = @ + 1])
    ELSE Ret(c, [result EXCEPT !.X = f.x])

\* CheckSee, but the Result ends where the sub-rule ended
MutCheckSee(c, f, r, i, d) ==
    LET o == CheckRule(c, f.subs[1], r, i, d + 1) IN
    IF o.c.st # "ok" THEN o
    ELSE Ret(o.c, Res("", i, o.res.E, IF o.res.X = "" THEN "" ELSE f.x, <<>>))

CheckSee(c, f, r, i, d) ==
    LET o == CheckRule(c, f.subs[1], r, i, d + 1) IN
    IF o.c.st # "ok" THEN o
    ELSE Ret(o.c, Res("", i, i, IF o.res.X = "" THEN "" ELSE f.x, <<>>))

\* CheckNot, but the test of the sub-rule's error is not inverted
MutCheckNot(c, f, r, i, d) ==
    LET o == CheckRule(c, f.subs[1], r, i, d + 1) IN
    IF o.c.st # "ok" THEN o
    ELSE Ret(o.c, Res("", i, i, IF o.res.X = "" THEN "" ELSE f.x, <<>>))

CheckNot(c, f, r, i, d) ==
    LET o == CheckRule(c, f.subs[1], r, i, d + 1) IN
    IF o.c.st # "ok" THEN o
    ELSE Ret(o.c, Res("", i, i, IF o.res.X # "" THEN "" ELSE f.x, <<>>))

\* CheckNamed that leaves the name of the Result as the sub-rule set it
MutCheckNamed(c, f, r, i, d) == CheckRule(c, f.subs[1], r, i, d + 1)

CheckNamed(c, f, r, i, d) ==
    LET o == CheckRule(c, f.subs[1], r, i, d + 1) IN
    IF o.c.st # "ok" THEN o ELSE Ret(o.c, [o.res EXCEPT !.N = f.key])

\* CheckRef for a reference bound when it was lowered, before any rule had
\* the name
MutCheckRef(c, f, r, i, d) == Ret(c, Res("", i, i, f.x, <<>>))

CheckRef(c, f, r, i, d) ==
    IF Has(c.g.Rules, f.key) THEN CheckRule(c, c.g.Rules[f.key], r, i, d + 1)
    ELSE Ret(c, Res("", i, i, f.x, <<>>))

\* Result.Text panics unless 0 <= B <= E <= len(R)
TextOk(res, r) == 0 <= res.B /\ res.B <= res.E /\ res.E <= Len(r)

\* Text with the last rune of the span left out
MutText(res, r) == SubSeq(r, res.B + 1, res.E - 1)

Text(res, r) == SubSeq(r, res.B + 1, res.E)

\* CheckSave with the store made whatever the named rule returned
MutCheckSave(c, f, r, i, d) ==
    IF Has(c.g.Rules, f.key)
    THEN LET o == CheckRule(c, c.g.Rules[f.key], r, i, d + 1) IN
         IF o.c.st # "ok" THEN o
         ELSE IF ~TextOk(o.res, r) THEN Stop(o.c, "panic")
              ELSE LET m == MakeStrVal(o.c.g, Text(o.res, r)) IN
                   Ret([o.c EXCEPT !.g = [m.g EXCEPT !.Saved = Put(@, f.key, m.rule)]],
                       o.res)
    ELSE Ret(c, Res("", i, i, f.x, <<>>))

CheckSave(c, f, r, i, d) ==
    IF Has(c.g.Rules, f.key)
    THEN LET o == CheckRule(c, c.g.Rules[f.key], r, i, d + 1) IN
         IF o.c.st # "ok" THEN o
         ELSE IF o.res.X = ""
              THEN IF ~TextOk(o.res, r) THEN Stop(o.c, "panic")
                   ELSE LET m == MakeStrVal(o.c.g, Text(o.res, r)) IN
                        Ret([o.c EXCEPT !.g = [m.g EXCEPT !.Saved = Put(@, f.key, m.rule)]],
                            o.res)
              ELSE o
    ELSE Ret(c, Res("", i, i, f.x, <<>>))

\* CheckVal that on a miss saves the rule of that name and checks it
MutCheckVal(c, f, r, i, d) ==
    IF Has(c.g.Saved, f.key) THEN CheckRule(c, c.g.Saved[f.key], r, i, d + 1)
    ELSE IF Has(c.g.Rules, f.key)
         THEN CheckRule([c EXCEPT !.g.Saved = Put(@, f.key, c.g.Rules[f.key])],
                        c.g.Rules[f.key], r, i, d + 1)
         ELSE Ret(c, Res("", i, i, f.x, <<>>))

CheckVal(c, f, r, i, d) ==
    IF Has(c.g.Saved, f.key) THEN CheckRule(c, c.g.Saved[f.key], r, i, d + 1)
    ELSE Ret(c, Res("", i, i, f.x, <<>>))

\* the body of the closure f
Run(c, f, r, i, d) ==
    CASE f.k = "Str" -> Ret(c, CheckStr(f, r, i))
      [] f.k = "Is" -> Ret(c, CheckIs(f, r, i))
      [] f.k = "AnyN" -> Ret(c, CheckAnyN(f, r, i))
      [] f.k = "AnyMmx" -> Ret(c, CheckAnyMmx(f, r, i))
      [] f.k = "Rng" -> IF i < 0 \/ i >= Len(r) THEN Stop(c, "panic")
                        ELSE Ret(c, CheckRngAt(f, r, i))
      [] f.k = "End" -> Ret(c, CheckEnd(f, r, i))
      [] f.k = "Seq" -> SeqLoop(c, f.subs, r, i, i, d, <<>>)
      [] f.k = "One" -> OneLoop(c, f, f.subs, r, i, d, Res("", i, i, "", <<>>))
      [] f.k = "Mmx" -> MmxLoop(c, f, r, i, d, Res("", i, i, "", <<>>), 0)
      [] f.k = "To" -> ToLoop(c, f, r, i, d, Res("", i, i, "", <<>>))
      [] f.k = "See" -> CheckSee(c, f, r, i, d)
      [] f.k = "Not" -> CheckNot(c, f, r, i, d)
      [] f.k = "Named" -> CheckNamed(c, f, r, i, d)
      [] f.k = "Ref" -> CheckRef(c, f, r, i, d)
      [] f.k = "Save" -> CheckSave(c, f, r, i, d)
      [] f.k = "Val" -> CheckVal(c, f, r, i, d)

\* rule.Check(r, i), called at nesting depth d
CheckRule(c, rule, r, i, d) ==
    IF c.st # "ok" THEN Ret(c, NoRes)
    ELSE IF c.g.heap[rule].Check.k = "nil" THEN Stop(c, "panic")
    ELSE IF Len(c.log) >= MaxCalls THEN Stop(c, "cut")
    ELSE LET k == Len(c.log) + 1
             c1 == [c EXCEPT !.log = Append(@, [d |-> d, rule |-> rule, i |-> i,
                                                 done |-> FALSE, res |-> NoRes,
                                                 before |-> c.g.Saved,
                                                 after |-> c.g.Saved])]
             o == Run(c1, c.g.heap[rule].Check, r, i, d)
         IN IF o.c.st # "ok" THEN o
            ELSE Ret([o.c EXCEPT !.log[k].done = TRUE, !.log[k].res = o.res,
                                 !.log[k].after = o.c.g.Saved], o.res)

(* ----------------------------- the inputs ------------------------------ *)

RECURSIVE SeqsUpTo(_, _)
SeqsUpTo(S, n) ==
    IF n = 0 THEN {<<>>}
    ELSE LET shorter == SeqsUpTo(S, n - 1) IN
         shorter \cup {Append(q, e) : q \in {p \in shorter : Len(p) = n - 1}, e \in S}

\* the []rune buffers that are checked
Buffers == SeqsUpTo(BufRunes, MaxLen)

\* the buffers checked while the grammar is still being built
ShortBuffers == SeqsUpTo(BufRunes, MaxScan)

Sa == GoString(<<RuneA>>)
Sb == GoString(<<RuneB>>)
Sab == GoString(<<RuneA, RuneB>>)
NameP == GoString(<<RuneB, RuneA>>)

Any1(n) == Expr("Any", <<GoInt(n)>>)
Any2(m, n) == Expr("Any", <<GoInt(m), GoInt(n)>>)
Mmx(m, n, it) == Expr("Mmx", <<GoInt(m), GoInt(n), it>>)
One(a) == Expr("One", a)
SeqOf(a) == Expr("Seq", a)
See(it) == Expr("See", <<it>>)
Not(it) == Expr("Not", <<it>>)
To(it) == Expr("To", <<it>>)
End == Expr("End", <<>>)
Named(name, it) == Expr("N", <<name, it>>)
Ref(name) == Expr("Ref", <<name>>)
Sav(name) == Expr("Sav", <<name>>)
ValOf(name) == Expr("Val", <<name>>)
Rng(lo, hi) == Expr("Rng", <<GoRune(lo), GoRune(hi)>>)

\* argument lists handed to Pack when the check engine is examined
CheckTerms ==
    { <<Sab>>, <<Any1(1)>>, <<Any1(3)>>, <<Any2(0, 2)>>, <<Any2(1, 3)>>,
      <<GoFunc(IsRuneA)>>, <<Any1(2), End>>,
      <<One(<<Sa, Sab>>)>>, <<One(<<Sab, Sa>>)>>, <<One(<<Sb, Any1(2), Sa>>)>>,
      <<One(<<SeqOf(<<Sa, End>>), Mmx(1, 2, Sa)>>)>>,
      <<Sa, One(<<Sa, Sb>>), Sb>>, <<Mmx(0, 1, Sa), Sb, End>>,
      <<Not(Sa), Any1(1), Mmx(0, 1, Sb)>>,
      <<Mmx(1, 2, Sa)>>, <<Mmx(0, 1, Sab)>>, <<Mmx(0, 0, Sa)>>, <<Mmx(2, 2, Sa)>>,
      <<Mmx(1, -1, Sa)>>, <<Mmx(0, -1, Sb)>>, <<Mmx(1, 3, Any1(1))>>,
      <<Mmx(0, 2, One(<<Sa, Sb>>))>>, <<Mmx(1, 2, Mmx(1, 2, Sa))>>,
      <<See(Sa)>>, <<Not(Sa)>>, <<One(<<See(Sab), Not(Sab)>>)>>,
      <<See(Any1(2)), Not(Any1(2))>>, <<Not(Mmx(1, 2, Sa))>>, <<See(To(Sb))>>,
      <<To(Sa)>>, <<To(Sab)>>, <<To(End)>>, <<To(See(Sb))>>, <<To(Sb), Sb>>,
      <<To(Not(Sa))>>, <<To(Mmx(0, 1, Sa))>>,
      <<Named(Sa, One(<<Sa, Sb>>))>>, <<Ref(NameP), Sb>>, <<Mmx(0, 2, Ref(NameP))>>,
      <<Named(Sb, SeqOf(<<Sav(NameP), To(ValOf(NameP)), ValOf(NameP)>>))>>,
      <<One(<<SeqOf(<<Sav(NameP), Sb>>), ValOf(NameP)>>)>>,
      <<Sav(Sa), Named(Sa, SeqOf(<<Sav(NameP), Sb>>))>>,
      <<Mmx(0, -1, Mmx(0, 1, Sa))>>, <<One(<<Sab, Sb>>)>>, <<Rng(RuneA, RuneA)>>,
      <<One(<<ValOf(NameP), Sav(NameP)>>)>> }

\* rules lowered with MakeRule before Pack is called
Preludes == { <<>>, <<Named(NameP, Mmx(1, 2, Sa))>> }

\* expressions lowered one at a time in the general specification
Terms ==
    { Sa, End, One(<<Sa>>), Named(NameP, Sa), Ref(NameP), Sav(NameP), ValOf(NameP),
      Expr("Sav", <<>>) }

(* --------------------------- state machine ----------------------------- *)

\* heap, Rules, Saved, Main, ruleid: the Grammar and the Rule objects it
\* points to.  op: the last call made on the grammar and what it returned.
\* scans: for each goroutine that scans the grammar, the scan it is in.
\* printed: the last expression printed with x.String and its text.
VARIABLES heap, Rules, Saved, Main, ruleid, op, scans, printed

vars == <<heap, Rules, Saved, Main, ruleid, op, scans, printed>>

NotPrinted == [in |-> <<>>, done |-> FALSE, out |-> ""]

\* the goroutines that scan one grammar at the same time
Threads == 1..MaxThreads

\* what a call of Scan came to: its Result, and whether it returned
Outcome(o) == [res |-> o.res, st |-> o.c.st]

NoOutcome == [res |-> NoRes, st |-> "ok"]

\* a goroutine that is not scanning
Idle == [st |-> "idle", r |-> <<>>, alone |-> NoOutcome, out |-> NoOutcome,
         log |-> <<>>, overlapped |-> FALSE]

NoScans == [t \in Threads |-> Idle]

G == [heap |-> heap, Rules |-> Rules, Saved |-> Saved, Main |-> Main, ruleid |-> ruleid,
      nomaps |-> FALSE, dead |-> FALSE]

SetG(g) ==
    /\ heap' = g.heap
    /\ Rules' = g.Rules
    /\ Saved' = g.Saved
    /\ Main' = g.Main
    /\ ruleid' = g.ruleid

OpMake(kind, o) ==
    [kind |-> kind, text |-> "", bytes |-> <<>>, rule |-> o.rule, panic |-> o.panic,
     r |-> <<>>, i |-> 0, res |-> NoRes, log |-> <<>>, st |-> "ok"]

OpCheck(kind, rule, r, i, o) ==
    [kind |-> kind, text |-> "", bytes |-> <<>>, rule |-> rule, panic |-> o.c.st = "panic",
     r |-> r, i |-> i, res |-> o.res, log |-> o.c.log, st |-> o.c.st]

\* new(Grammar).Init()
Init ==
    /\ heap = InitGrammar.heap
    /\ Rules = InitGrammar.Rules
    /\ Saved = InitGrammar.Saved
    /\ Main = InitGrammar.Main
    /\ ruleid = InitGrammar.ruleid
    /\ op = OpMake("init", Ok(InitGrammar, 0))
    /\ scans = NoScans
    /\ printed = NotPrinted

\* the grammar and the last call after a lowering call that returned o for
\* an argument whose canonical text is text; the heap is kept within
\* MaxRules Rule objects
Made(kind, text, o) ==
    /\ Len(o.g.heap) <= MaxRules
    /\ SetG(o.g)
    /\ op' = [OpMake(kind, o) EXCEPT !.text = text]
    /\ UNCHANGED <<scans, printed>>

\* g.MakeRule(in)
DoMakeRule == \E in \in Terms : Made("make", String(in), MakeRule(G, in))

\* g.Pack(in)
DoPack == \E in \in Terms : Made("pack", String(in), Pack(G, <<in>>))

\* g.Check(r, i), which is g.Main.Check(r, i), for a buffer of bufs: a nil
\* Main is dereferenced
CheckOn(bufs) ==
    /\ UNCHANGED <<scans, printed>>
    /\ \E r \in bufs :
        \E i \in 0..Len(r) :
            IF Main = 0
            THEN /\ op' = [OpMake("check", Panic(G)) EXCEPT !.r = r, !.i = i, !.st = "panic"]
                 /\ UNCHANGED <<heap, Rules, Saved, Main, ruleid>>
            ELSE LET o == CheckRule(InitCtx(G), Main, r, i, 0) IN
                 /\ SetG(o.c.g)
                 /\ op' = OpCheck("check", Main, r, i, o)

\* g.Scan(r) for a []rune r of bufs
ScanOn(bufs) ==
    /\ UNCHANGED <<scans, printed>>
    /\ \E r \in bufs :
        IF Main = 0
        THEN /\ op' = [OpMake("scan", Ok(G, 0)) EXCEPT
                          !.res = Res("", 0, 0, "zero value: *rat.Rule", <<>>)]
             /\ UNCHANGED <<heap, Rules, Saved, Main, ruleid>>
        ELSE LET o == CheckRule(InitCtx(G), Main, r, 0, 0) IN
             /\ SetG(o.c.g)
             /\ op' = OpCheck("scan", Main, r, 0, o)

\* checks and scans made between lowering calls
DoCheckAny == CheckOn(ShortBuffers)

DoScanAny == ScanOn(ShortBuffers)

Next == DoMakeRule \/ DoPack \/ DoCheckAny \/ DoScanAny

Spec == Init /\ [][Next]_vars

\* checks and scans of a packed grammar
DoCheck == CheckOn(Buffers)

DoScan == ScanOn(Buffers)

\* the grammar and the last call are what the call of Pack returned as o
Packed(o) ==
    /\ heap = o.g.heap
    /\ Rules = o.g.Rules
    /\ Saved = o.g.Saved
    /\ Main = o.g.Main
    /\ ruleid = o.g.ruleid
    /\ op = OpMake("pack", o)
    /\ scans = NoScans
    /\ printed = NotPrinted

\* the lowering of a prelude, then rat.Pack(in...)
RECURSIVE MakeAll(_, _)
MakeAll(g, items) ==
    IF items = <<>> THEN g ELSE MakeAll(MakeRule(g, Head(items)).g, Tail(items))

\* a grammar built by Pack from one of CheckTerms
InitPacked ==
    \E pre \in Preludes, in \in CheckTerms : Packed(Pack(MakeAll(InitGrammar, pre), in))

NextCheck == DoCheck \/ DoScan

\* checks and scans of packed grammars
SpecCheck == InitPacked /\ [][NextCheck]_vars

(* ------------------------- rules added by hand ------------------------- *)

\* the Name of a Rule the program builds itself: none, a name of its own,
\* or the name of a rule that lowering caches
RuleNames == {"", Txt(NameP.s), StrName(Sa.s)}

\* g.AddRule(rule) for a rule of the grammar, or for a new Rule with one of
\* RuleNames as Name and a check of its own
DoAddRule ==
    \/ \E rule \in 1..Len(heap) :
          Made("addrule", heap[rule].Text, Ok(AddRule(G, rule), rule))
    \/ \E name \in RuleNames :
          LET rule == Len(heap) + 1
              clo == Clo("End", <<>>, <<>>, 0, 0, "", ErrExpected(End))
          IN Made("addrule", name, Ok(AddRule(SetCheck(Alloc(G, name, ""), rule, clo), rule), rule))

NextTable == DoMakeRule \/ DoPack \/ DoAddRule

\* lowering, AddRule and Pack on an initialised grammar
SpecTable == Init /\ [][NextTable]_vars

(* ------------------------- scans of byte strings ----------------------- *)

\* the strings and []byte values that are scanned
ByteStrings == SeqsUpTo(StrBytes, MaxLen)

\* g.Scan(v) for a string or []byte v, on the grammar Pack returned: Rule.Scan
\* converts v to []rune and calls Check on it at 0
DoScanBytes ==
    /\ op.kind = "pack"
    /\ UNCHANGED <<scans, printed>>
    /\ \E v \in ByteStrings :
        IF Main = 0
        THEN /\ op' = [OpMake("scanbytes", Ok(G, 0)) EXCEPT
                          !.bytes = v,
                          !.res = Res("", 0, 0, "zero value: *rat.Rule", <<>>)]
             /\ UNCHANGED <<heap, Rules, Saved, Main, ruleid>>
        ELSE LET o == CheckRule(InitCtx(G), Main, Runes(v), 0, 0) IN
             /\ SetG(o.c.g)
             /\ op' = [OpCheck("scanbytes", Main, Runes(v), 0, o) EXCEPT !.bytes = v]

\* scans of strings on packed grammars
SpecBytes == InitPacked /\ [][DoScanBytes]_vars

(* --------------------------- concurrent scans -------------------------- *)

\* g.Scan(r) on the grammar g
ScanOf(g, r) ==
    IF g.Main = 0
    THEN Ret(InitCtx(g), Res("", 0, 0, "zero value: *rat.Rule", <<>>))
    ELSE CheckRule(InitCtx(g), g.Main, r, 0, 0)

\* goroutine t has called g.Scan(r); alone is what the scan comes to when
\* no other goroutine touches the grammar until it returns
Began(t, r, alone) ==
    /\ scans' = [scans EXCEPT ![t] = [Idle EXCEPT !.st = "running", !.r = r,
                                                  !.alone = Outcome(alone)]]
    /\ UNCHANGED <<heap, Rules, Saved, Main, ruleid, op, printed>>

BeginScan == \E t \in Threads : \E r \in ShortBuffers :
    scans[t].st # "running" /\ Began(t, r, ScanOf(G, r))

\* the scan of goroutine t has run on the grammar as the scans that
\* returned since it was called left it, and has come to o
Ended(t, o) ==
    /\ SetG(o.c.g)
    /\ scans' = [scans EXCEPT ![t].st = "done", ![t].out = Outcome(o),
                              ![t].log = o.c.log,
                              ![t].overlapped =
                                  \E u \in Threads \ {t} : scans[u].st = "running"]
    /\ UNCHANGED <<op, printed>>

EndScan == \E t \in Threads :
    scans[t].st = "running" /\ Ended(t, ScanOf(G, scans[t].r))

\* the grammars scanned concurrently: none of them uses Save
ConcTerms ==
    { <<One(<<Sa, Sab>>)>>, <<Mmx(0, 1, Sa), Sb, End>>, <<To(Not(Sa))>>,
      <<Ref(NameP), Sb>>, <<Mmx(0, 2, Ref(NameP))>>, <<ValOf(NameP)>>,
      <<One(<<ValOf(NameP), Ref(NameP)>>)>> }

InitConc ==
    \E pre \in Preludes, in \in ConcTerms : Packed(Pack(MakeAll(InitGrammar, pre), in))

NextConc == BeginScan \/ EndScan

\* goroutines scanning a packed grammar at the same time
SpecConc == InitConc /\ [][NextConc]_vars

(* --------------------------- package-level Pack ------------------------ *)

\* rat.Pack(in...): new(Grammar).Pack(in...)
RatPack(in) == Pack(ZeroGrammar, in)

\* the argument lists given to rat.Pack
PackItems == {Sa, Sb, Any1(1), End, Not(Sa), Mmx(0, 1, Sb)}

PackArgs ==
    CheckTerms \cup {<<in>> : in \in Terms \ {Expr("Sav", <<>>)}}
        \cup {in \in SeqsUpTo(PackItems, MaxArgs) : Len(in) >= 1}

\* the grammar rat.Pack returned, when it returned
Returned(text, o) ==
    /\ IF o.panic THEN UNCHANGED <<heap, Rules, Saved, Main, ruleid>> ELSE SetG(o.g)
    /\ op' = [OpMake("ratpack", o) EXCEPT !.text = text]
    /\ UNCHANGED <<scans, printed>>

\* g := rat.Pack(in...), in a program that has no grammar yet
DoRatPack ==
    /\ op.kind = "init"
    /\ \E in \in PackArgs : Returned(String(SeqOf(in)), RatPack(in))

\* calls of rat.Pack
SpecPack == Init /\ [][DoRatPack]_vars

(* ------------------------------ printing ------------------------------- *)

\* the children of the sequences that are printed: literals as string,
\* rune, int and x.Str, and a reference, a value, a lookahead, a class
\* test as x.Is and as a plain func
PrintItems ==
    { Sa, Sb, GoString(<<RuneQuote>>), GoRune(RuneB), GoInt(1), Expr("Str", <<Sa, Sb>>),
      Ref(NameP), ValOf(NameP), Not(Sa), Expr("Is", <<GoFunc(IsRuneA)>>), GoFunc(IsRuneA) }

PrintArgs == {args \in SeqsUpTo(PrintItems, MaxArgs) : Len(args) >= 2}

\* a sequence of children is about to be printed
InitPrint ==
    /\ heap = InitGrammar.heap
    /\ Rules = InitGrammar.Rules
    /\ Saved = InitGrammar.Saved
    /\ Main = InitGrammar.Main
    /\ ruleid = InitGrammar.ruleid
    /\ op = OpMake("init", Ok(InitGrammar, 0))
    /\ scans = NoScans
    /\ \E args \in PrintArgs : printed = [NotPrinted EXCEPT !.in = args]

\* x.Seq(printed.in).String()
DoString ==
    /\ ~printed.done
    /\ printed' = [printed EXCEPT !.done = TRUE, !.out = String(SeqOf(printed.in))]
    /\ UNCHANGED <<heap, Rules, Saved, Main, ruleid, op, scans>>

\* the printing of sequences
SpecPrint == InitPrint /\ [][DoString]_vars

(* ------------------------- reading the call log ------------------------ *)

\* the last operation was a check or scan that returned a Result
Completed == op.kind \in {"check", "scan"} /\ op.st = "ok" /\ op.rule # 0

\* the calls of op.log[j..] made directly by the closure of call k
RECURSIVE KidsFrom(_, _)
KidsFrom(k, j) ==
    IF j > Len(op.log) \/ op.log[j].d <= op.log[k].d THEN <<>>
    ELSE (IF op.log[j].d = op.log[k].d + 1 THEN <<op.log[j]>> ELSE <<>>) \o KidsFrom(k, j + 1)

\* the sub-rule checks call k made, in the order it made them
Kids(k) == KidsFrom(k, k + 1)

\* the closure that call k ran
CloOf(k) == heap[op.log[k].rule].Check

\* the calls of the completed check whose closure was built by Make<kind>
CallsOf(kind) == IF Completed THEN {k \in 1..Len(op.log) : CloOf(k).k = kind} ELSE {}

Failed(res) == res.X # ""

Last(q) == q[Len(q)]

Results(calls) == [j \in 1..Len(calls) |-> calls[j].res]

(* ------------------------------- claims -------------------------------- *)

RECURSIVE InBounds(_, _)
InBounds(res, n) ==
    /\ 0 <= res.B
    /\ res.B <= res.E
    /\ res.E <= n
    /\ \A j \in 1..Len(res.C) : InBounds(res.C[j], n)

\* C1: the Result of every check, and every Result in its children tree,
\* has 0 <= B <= E <= len(buffer), on success and on failure.
C1_ResultWithinBuffer == Completed => InBounds(op.res, Len(op.r))

\* C2: an ordered choice of two or more alternatives checks them in order,
\* all at its own start position, up to the first that succeeds; it succeeds
\* iff one of them does, and then its only child is that alternative's
\* Result and its E is that child's E; it fails only after trying them all.
C2_OneFirstSuccess ==
    \A k \in CallsOf("One") :
        LET e == op.log[k]
            f == CloOf(k)
            kids == Kids(k)
        IN /\ Len(f.subs) >= 2
           /\ Len(kids) >= 1
           /\ Len(kids) <= Len(f.subs)
           /\ \A j \in 1..Len(kids) : kids[j].rule = f.subs[j] /\ kids[j].i = e.i
           /\ \A j \in 1..(Len(kids) - 1) : Failed(kids[j].res)
           /\ Failed(e.res) <=> Failed(Last(kids).res)
           /\ ~Failed(e.res) => e.res.C = <<Last(kids).res>> /\ e.res.E = Last(kids).res.E
           /\ Failed(e.res) => Len(kids) = Len(f.subs)

\* a choice succeeded through its second alternative after the first had
\* advanced and failed
C2_Witness ==
    \E k \in CallsOf("One") :
        /\ ~Failed(op.log[k].res)
        /\ Len(Kids(k)) = 2
        /\ Kids(k)[1].res.E > op.log[k].i

\* C3: a sequence checks its sub-rules in order, each where the previous one
\* ended; the first failure ends it, and then the children are all the
\* sub-results so far with the failing one last, and E and X are the failing
\* child's E and X.
C3_SeqStopsAtFirstFailure ==
    \A k \in CallsOf("Seq") :
        LET e == op.log[k]
            f == CloOf(k)
            kids == Kids(k)
        IN /\ Len(kids) <= Len(f.subs)
           /\ \A j \in 1..Len(kids) :
                 /\ kids[j].rule = f.subs[j]
                 /\ kids[j].i = IF j = 1 THEN e.i ELSE kids[j - 1].res.E
           /\ \A j \in 1..(Len(kids) - 1) : ~Failed(kids[j].res)
           /\ e.res.C = Results(kids)
           /\ IF kids # <<>> /\ Failed(Last(kids).res)
              THEN e.res.X = Last(kids).res.X /\ e.res.E = Last(kids).res.E
              ELSE ~Failed(e.res) /\ Len(kids) = Len(f.subs)

\* a sequence of three or more sub-rules failed at its second one
C3_Witness ==
    \E k \in CallsOf("Seq") :
        /\ Len(CloOf(k).subs) >= 3
        /\ Len(Kids(k)) = 2
        /\ Failed(op.log[k].res)

NotFailing(C) == Cardinality({j \in 1..Len(C) : ~Failed(C[j])})

\* C4: when a greedy repetition with 0 <= min <= max succeeds, the number
\* of non-failing Results among its children is at least min and at most max.
C4_MmxChildrenWithinBounds ==
    \A k \in CallsOf("Mmx") :
        LET e == op.log[k]
            f == CloOf(k)
        IN (f.n >= 0 /\ ~Failed(e.res)) =>
              (f.m <= NotFailing(e.res.C) /\ NotFailing(e.res.C) <= f.n)

\* the number of sub-rule checks of a repetition that succeeded before the
\* first one that failed
RECURSIVE Successive(_)
Successive(kids) ==
    IF kids = <<>> \/ Failed(Head(kids).res) THEN 0 ELSE 1 + Successive(Tail(kids))

\* C5: a repetition with max = -1 is unbounded: it succeeds iff its sub-rule
\* matches at least min times in succession, and it ends where the last of
\* those matches ended.
C5_MmxUnbounded ==
    \A k \in CallsOf("Mmx") :
        LET e == op.log[k]
            f == CloOf(k)
            kids == Kids(k)
            n == Successive(kids)
        IN f.n = -1 =>
              /\ ~Failed(e.res) <=> n >= f.m
              /\ e.res.E = IF n = 0 THEN e.i ELSE kids[n].res.E

\* C6: when a repetition stops because a check of its sub-rule failed, that
\* failing Result is the last child of the repetition's Result.
C6_MmxKeepsFailingChild ==
    \A k \in CallsOf("Mmx") :
        LET e == op.log[k]
            kids == Kids(k)
        IN (kids # <<>> /\ Failed(Last(kids).res)) =>
              (e.res.C # <<>> /\ Last(e.res.C) = Last(kids).res)

\* C7: a repetition with max >= 0 consumes at most max matches: each check
\* of the sub-rule starts where the previous one ended, it ends where the
\* last consumed match ended, and when the sub-rule matches once more after
\* max matches were consumed it succeeds with E at the end of match max.
C7_MmxStopsAtMax ==
    \A k \in CallsOf("Mmx") :
        LET e == op.log[k]
            f == CloOf(k)
            kids == Kids(k)
            count == Len(kids) - 1
        IN f.n >= 0 =>
              /\ Len(kids) >= 1
              /\ count <= f.n
              /\ \A j \in 1..Len(kids) :
                    kids[j].i = IF j = 1 THEN e.i ELSE kids[j - 1].res.E
              /\ \A j \in 1..count : ~Failed(kids[j].res)
              /\ e.res.E = IF count = 0 THEN e.i ELSE kids[count].res.E
              /\ ~Failed(Last(kids).res) =>
                    (count = f.n /\ ~Failed(e.res) /\ e.res.E = Last(kids).i)

\* the sub-rule matched a further time after max >= 1 matches were consumed,
\* and that match is longer than nothing
C7_Witness ==
    \E k \in CallsOf("Mmx") :
        /\ CloOf(k).n >= 1
        /\ Len(Kids(k)) = CloOf(k).n + 1
        /\ ~Failed(Last(Kids(k)).res)
        /\ Last(Kids(k)).res.E > Last(Kids(k)).i

\* C8: the Result of See and of Not has B = E = the start position and no
\* children, whether it succeeds or fails and however far the sub-rule went.
C8_LookaheadZeroWidth ==
    \A k \in CallsOf("See") \cup CallsOf("Not") :
        LET e == op.log[k] IN
        e.res.B = e.i /\ e.res.E = e.i /\ e.res.C = <<>>

\* a See succeeded although its sub-rule advanced
C8_Witness ==
    \E k \in CallsOf("See") :
        /\ ~Failed(op.log[k].res)
        /\ Len(Kids(k)) = 1
        /\ Kids(k)[1].res.E > op.log[k].i

\* the rules of the grammar built by Make<kind>
RulesOf(kind) == {rule \in 1..Len(heap) : heap[rule].Check.k = kind}

\* C9: See(r) succeeds iff r succeeds and Not(r) succeeds iff r fails, so at
\* every position of a buffer exactly one of See(r) and Not(r) succeeds.
C9_SeeNotDual ==
    /\ \A k \in CallsOf("See") :
          Len(Kids(k)) = 1 /\ (Failed(op.log[k].res) <=> Failed(Kids(k)[1].res))
    /\ \A k \in CallsOf("Not") :
          Len(Kids(k)) = 1 /\ (Failed(op.log[k].res) <=> ~Failed(Kids(k)[1].res))
    /\ Completed =>
          \A see \in RulesOf("See"), nt \in RulesOf("Not"), i \in 0..Len(op.r) :
              LET a == CheckRule(InitCtx(G), see, op.r, i, 0)
                  b == CheckRule(InitCtx(G), nt, op.r, i, 0)
              IN (heap[see].Check.subs = heap[nt].Check.subs
                     /\ a.c.st = "ok" /\ b.c.st = "ok")
                   => (Failed(a.res) <=> ~Failed(b.res))

\* one check ran See(r) and Not(r) at the same position: See succeeded and
\* Not failed
C9_Witness ==
    \E k \in CallsOf("See"), m \in CallsOf("Not") :
        /\ CloOf(k).subs = CloOf(m).subs
        /\ op.log[k].i = op.log[m].i
        /\ ~Failed(op.log[k].res)
        /\ Failed(op.log[m].res)

\* C10: to(r) checks r at its start position and then one rune further each
\* time until r succeeds; it then succeeds with no children and E at that
\* position.  If r succeeds nowhere before the end of the buffer it fails
\* with E = len(buffer) and an error that names the to-expression.
C10_ToStopsAtFirstMatch ==
    \A k \in CallsOf("To") :
        LET e == op.log[k]
            f == CloOf(k)
            kids == Kids(k)
        IN /\ e.res.B = e.i
           /\ e.res.C = <<>>
           /\ \A j \in 1..Len(kids) :
                 /\ kids[j].rule = f.subs[1]
                 /\ kids[j].i = e.i + j - 1
                 /\ kids[j].i < Len(op.r)
           /\ \A j \in 1..(Len(kids) - 1) : Failed(kids[j].res)
           /\ IF kids # <<>> /\ ~Failed(Last(kids).res)
              THEN ~Failed(e.res) /\ e.res.E = Last(kids).i
              ELSE /\ Len(kids) = Len(op.r) - e.i
                   /\ e.res.E = Len(op.r)
                   /\ e.res.X = "expected: " \o heap[e.rule].Text

\* a to(r) skipped at least one rune and stopped before the end of the
\* buffer where r matched some runes
C10_Witness ==
    \E k \in CallsOf("To") :
        /\ ~Failed(op.log[k].res)
        /\ op.log[k].res.E > op.log[k].i
        /\ Last(Kids(k)).res.E > Last(Kids(k)).i

\* the last call lowered an expression and returned a rule
Lowered(o) == o.kind \in {"make", "pack"} /\ ~o.panic

\* C11: lowering an expression and then an expression with the same
\* canonical text (the same expression again included) returns the same
\* Rule object both times, whatever the kind of expression.
C11_SameTextSameRule ==
    [][(Lowered(op) /\ Lowered(op') /\ op'.text = op.text) => op'.rule = op.rule]_vars

\* C12: a lowering call never removes a name from the rule table and never
\* binds a name that is in the table to another Rule object.
C12_RuleTableOnlyGrows ==
    [][op'.kind \in {"make", "pack"} =>
          \A name \in DOMAIN Rules :
              name \in DOMAIN Rules' /\ Rules'[name] = Rules[name]]_vars

\* C13: a check or scan changes nothing of the grammar but the
\* saved-literal table: the rule table, the rule counter and the entry rule
\* are after it what they were before it.
C13_ScanKeepsRuleTable ==
    [][op'.kind \in {"check", "scan"} =>
          (Rules' = Rules /\ ruleid' = ruleid /\ Main' = Main)]_vars

\* the saved-literal table saved, but for key
Except(saved, key) == [n \in DOMAIN saved \ {key} |-> saved[n]]

\* rule is a literal rule that matches exactly the text
IsLiteralOf(rule, text) == heap[rule].Check.k = "Str" /\ heap[rule].Check.s = text

\* C14: a check of save(name) checks the rule named name at the same
\* position and returns its result.  When that rule succeeds, the saved
\* table afterwards is the table the rule's check left, with name mapped to
\* a literal rule of exactly the matched text.  When it fails, save writes
\* nothing: the table afterwards is the table the rule's check left.  When
\* no rule has the name, the table is unchanged and the failure is zero-width.
C14_SaveStoresMatch ==
    \A k \in CallsOf("Save") :
        LET e == op.log[k]
            key == CloOf(k).key
            kids == Kids(k)
        IN IF kids = <<>>
           THEN /\ e.res = Res("", e.i, e.i, CloOf(k).x, <<>>)
                /\ e.after = e.before
           ELSE /\ Len(kids) = 1
                /\ kids[1].rule = Rules[key]
                /\ kids[1].i = e.i
                /\ e.res = kids[1].res
                /\ IF Failed(e.res) THEN e.after = kids[1].after
                   ELSE /\ Has(e.after, key)
                        /\ IsLiteralOf(e.after[key], Text(e.res, op.r))
                        /\ Except(e.after, key) = Except(kids[1].after, key)

\* a save has replaced the literal saved earlier under its name
C14_Witness ==
    \E k \in CallsOf("Save") :
        LET e == op.log[k]
            key == CloOf(k).key
        IN /\ ~Failed(e.res)
           /\ Has(e.before, key)
           /\ e.after[key] # e.before[key]
           /\ Len(Text(e.res, op.r)) >= 1

\* C14 as stated: when the named rule fails, the saved table is exactly as
\* it was before the check of save(name)
C14_FailedSaveKeepsTable ==
    \A k \in CallsOf("Save") :
        Failed(op.log[k].res) => op.log[k].after = op.log[k].before

\* call k was made while call j was running
Within(j, k) == j < k /\ \A m \in (j + 1)..k : op.log[m].d > op.log[j].d

\* the successful checks of save(key) that had returned when call k began
SavedBefore(k, key) ==
    {j \in CallsOf("Save") :
        j < k /\ ~Within(j, k) /\ CloOf(j).key = key /\ ~Failed(op.log[j].res)}

\* the check of save(key) that was the last to return before call k began
LastSaves(k, key) ==
    {j \in SavedBefore(k, key) :
        \A m \in SavedBefore(k, key) \ {j} : m < j /\ ~Within(m, j)}

\* the runes of the buffer a result spans
Matched(res) == [n \in 1..(res.E - res.B) |-> op.r[res.B + n]]

\* the buffer has text at position p
HasAt(p, text) ==
    p + Len(text) <= Len(op.r) /\ \A n \in 1..Len(text) : op.r[p + n] = text[n]

\* C15: when value(R) is checked at p, the last successful save(R) before
\* it matched T, and the buffer has T at p, the check of value(R) succeeds
\* with B = p and E = p + |T|.
C15_SaveValueRoundTrip ==
    \A k \in CallsOf("Val") :
        \A j \in LastSaves(k, CloOf(k).key) :
            LET e == op.log[k]
                T == Matched(op.log[j].res)
            IN HasAt(e.i, T) =>
                   ~Failed(e.res) /\ e.res.B = e.i /\ e.res.E = e.i + Len(T)

\* value(R) has matched, further on in the buffer, the text save(R) matched
C15_Witness ==
    \E k \in CallsOf("Val") :
        \E j \in LastSaves(k, CloOf(k).key) :
            /\ Len(Matched(op.log[j].res)) >= 1
            /\ HasAt(op.log[k].i, Matched(op.log[j].res))
            /\ op.log[k].i > op.log[j].i
            /\ ~Failed(op.log[k].res)

\* C16: a check of a reference looks the name up in the rule table as it
\* is at that check.  While no rule has the name the check makes no
\* sub-rule check and returns a zero-width failure; when a rule has the
\* name, whenever it was installed, the check checks that rule at the same
\* position and returns its result.
C16_RefResolvedAtCheck ==
    \A k \in CallsOf("Ref") :
        LET e == op.log[k]
            kids == Kids(k)
        IN IF Has(Rules, CloOf(k).key)
           THEN /\ Len(kids) = 1
                /\ kids[1].rule = Rules[CloOf(k).key]
                /\ kids[1].i = e.i
                /\ e.res = kids[1].res
           ELSE /\ kids = <<>>
                /\ e.res = Res("", e.i, e.i, CloOf(k).x, <<>>)

\* a reference has matched through a rule that was installed after the
\* reference was lowered
C16_Witness ==
    \E k \in CallsOf("Ref") :
        /\ Has(Rules, CloOf(k).key)
        /\ Rules[CloOf(k).key] > op.log[k].rule
        /\ ~Failed(op.log[k].res)
        /\ op.log[k].res.E > op.log[k].i

\* C17: every check or scan of a buffer of at most MaxLen runes returns, or
\* panics, before it has begun MaxCalls rule checks.
C17_ScanTerminates == op.kind \in {"check", "scan"} => op.st # "cut"

\* no rule of the grammar uses Save
NoSave == \A rule \in 1..Len(heap) : heap[rule].Check.k # "Save"

\* the rule checks of a scan left the saved table as it is
NoWrites(log) == \A k \in 1..Len(log) : log[k].before = Saved /\ log[k].after = Saved

Calls == IF Completed THEN 1..Len(op.log) ELSE {}

\* C19: the E of a failing result is at least the E of every result that a
\* sub-rule check returned while the failing check ran.  The lookaheads,
\* whose results are zero-width, are left aside.
C19_FailureIsFarthest ==
    \A k \in Calls :
        (Failed(op.log[k].res) /\ CloOf(k).k \notin {"See", "Not"}) =>
            \A j \in Calls : Within(k, j) => op.log[j].res.E <= op.log[k].res.E

\* the leading runes of s that the buffer has, in order, from position i on
Leading(s, i) ==
    {n \in 0..Len(s) : \A m \in 1..n : i + m <= Len(op.r) /\ op.r[i + m] = s[m]}

\* the number of leading runes of s that match the buffer at i
LeadingMatch(s, i) == CHOOSE n \in Leading(s, i) : \A m \in Leading(s, i) : m <= n

\* C20: a check of the literal s at i returns a Result without children
\* with B = i and E = i + k, k the number of leading runes of s that match
\* the buffer from i on, and the result is a success exactly when k = |s|.
C20_LiteralMatchesPrefix ==
    \A k \in CallsOf("Str") :
        LET e == op.log[k]
            s == CloOf(k).s
        IN /\ e.res.B = e.i
           /\ e.res.E = e.i + LeadingMatch(s, e.i)
           /\ e.res.C = <<>>
           /\ ~Failed(e.res) <=> LeadingMatch(s, e.i) = Len(s)

\* a literal of two runes has failed on its second rune, past the start
\* of the buffer
C20_Witness ==
    \E k \in CallsOf("Str") :
        /\ Len(CloOf(k).s) = 2
        /\ op.log[k].i >= 1
        /\ LeadingMatch(CloOf(k).s, op.log[k].i) = 1
        /\ op.log[k].i + 2 <= Len(op.r)
        /\ Failed(op.log[k].res)

\* C21: a check of any(n) at i succeeds with E = i + n exactly when
\* i + n <= len(buffer); otherwise it fails with E = len(buffer).
C21_AnyCountsRunes ==
    \A k \in CallsOf("AnyN") :
        LET e == op.log[k]
            n == CloOf(k).n
        IN IF e.i + n <= Len(op.r)
           THEN ~Failed(e.res) /\ e.res.E = e.i + n
           ELSE Failed(e.res) /\ e.res.E = Len(op.r)

\* C22: a check of a rune range [lo, hi] at i, 0 <= i <= len(buffer),
\* returns a Result: a success with E = i + 1 when i < len(buffer) and
\* lo <= buffer[i] <= hi, and otherwise, at the end of input too, a failure
\* with E = B = i that names the range.
C22_RngAlwaysReturns ==
    (op.kind \in {"check", "scan"} /\ op.rule # 0 /\ heap[op.rule].Check.k = "Rng") =>
        LET f == heap[op.rule].Check IN
        /\ op.st = "ok"
        /\ op.res.B = op.i
        /\ IF op.i < Len(op.r) /\ f.m <= op.r[op.i + 1] /\ op.r[op.i + 1] <= f.n
           THEN ~Failed(op.res) /\ op.res.E = op.i + 1
           ELSE op.res.X = f.x /\ op.res.E = op.i

\* C23: a check of n(name, t) at i checks t once, at i, and returns the
\* Result t returned, the same B, E, failure and children, with the name
\* field set to name.
C23_NamedSetsOnlyName ==
    \A k \in CallsOf("Named") :
        LET e == op.log[k]
            kids == Kids(k)
        IN /\ Len(kids) = 1
           /\ kids[1].rule = CloOf(k).subs[1]
           /\ kids[1].i = e.i
           /\ e.res = [kids[1].res EXCEPT !.N = CloOf(k).key]

\* a named rule has returned a success with children under its own name,
\* and another a failure
C23_Witness ==
    /\ \E k \in CallsOf("Named") :
           /\ ~Failed(op.log[k].res)
           /\ op.log[k].res.C # <<>>
           /\ op.log[k].res.N # Kids(k)[1].res.N
    /\ \E k \in CallsOf("Named") : Failed(op.log[k].res)

\* the children that are literals
IsLiteral(it) == it.op \in {"string", "rune", "int", "Str"}

\* the text a literal stands for
RECURSIVE LitText(_)
LitText(it) ==
    CASE it.op = "string" -> it.s
      [] it.op = "rune" -> <<it.n>>
      [] it.op = "int" -> IntRunes(it.n)
      [] it.op = "Str" ->
             IF it.a = <<>> THEN <<>>
             ELSE LitText(Head(it.a)) \o LitText(Expr("Str", Tail(it.a)))

\* the children with each maximal run of adjacent literals made one
\* string literal of the concatenated text
RECURSIVE Merged(_)
Merged(args) ==
    IF args = <<>> THEN <<>>
    ELSE LET rest == Merged(Tail(args)) IN
         IF ~IsLiteral(Head(args)) THEN <<Head(args)>> \o rest
         ELSE IF rest # <<>> /\ Head(rest).op = "string"
              THEN <<GoString(LitText(Head(args)) \o Head(rest).s)>> \o Tail(rest)
              ELSE <<GoString(LitText(Head(args)))>> \o rest

\* the canonical text of children that need no merging
PlainText(rules) ==
    IF Len(rules) = 1 THEN String(rules[1]) ELSE "x.Seq{" \o CommaList(rules) \o "}"

\* C24: the canonical text of a sequence is that of its children with
\* each maximal run of adjacent literals replaced by one literal of the
\* concatenated text; merging stops at every child that is not a literal,
\* and a sequence of literals only prints as the one literal.
C24_SeqPrintMergesLiterals ==
    printed.done => printed.out = PlainText(Merged(printed.in))

\* C25: a call of the package-level Pack with valid terms, no grammar
\* made beforehand, returns without a panic a grammar whose entry rule is
\* the rule lowered from the arguments, cached in the rule table and with
\* a check to call.
C25_PackReturnsGrammar ==
    op.kind = "ratpack" =>
        /\ ~op.panic
        /\ Main # 0
        /\ Main = op.rule
        /\ heap[Main].Text = op.text
        /\ heap[Main].Check.k # "nil"

\* well-formed UTF-8, by the encoding's grammar
RECURSIVE WellFormed(_)
WellFormed(v) ==
    \/ v = <<>>
    \/ v[1] < 128 /\ WellFormed(Tail(v))
    \/ /\ Len(v) >= 2
       /\ v[1] >= 194 /\ v[1] < 224
       /\ v[2] >= 128 /\ v[2] < 192
       /\ WellFormed(Tail(Tail(v)))

\* C26: a scan of a string or byte sequence that is not well-formed UTF-8
\* returns a failure Result at once: the entry rule's check is not called
\* on any buffer.
C26_MalformedScanFails ==
    op.kind = "scanbytes" /\ ~WellFormed(op.bytes) =>
        /\ op.st = "ok"
        /\ op.res.X # ""
        /\ op.log = <<>>

\* what checking the rule at r, i on the grammar g comes to
CheckOf(g, rule, r, i) == Outcome(CheckRule(InitCtx(g), rule, r, i, 0))

\* what checking the term a by itself at r, i comes to
Alone(a, r, i) ==
    LET o == MakeRule(InitGrammar, a) IN CheckOf(o.g, o.rule, r, i)

\* C27: an ordered choice with exactly one alternative is that alternative:
\* the rule returned by lowering one_of(a), whose canonical text is the
\* text of a, checks at every position to the Result of checking a there.
C27_OneOfOneIsAlternative ==
    op.kind = "make" /\ ~op.panic /\ op.text = String(One(<<Sa>>)) =>
        \A r \in Buffers : \A i \in 0..Len(r) :
            CheckOf(G, op.rule, r, i) = Alone(Sa, r, i)

\* C28: after any sequence of lowering, AddRule and Pack calls on an
\* initialised grammar, every key of the rule table is the Name of the rule
\* stored at it.
C28_TableKeyedByName ==
    \A k \in DOMAIN Rules : Rules[k] \in 1..Len(heap) /\ heap[Rules[k]].Name = k

\* a table that holds a named rule, whose Name is not its Text, and a rule
\* named by AddRule, after a rule was added by hand
C28_Witness ==
    /\ op.kind = "addrule"
    /\ Main # 0
    /\ \E k \in DOMAIN Rules : heap[Rules[k]].Text \notin {"", k}
    /\ \E k \in DOMAIN Rules : heap[Rules[k]].Text = ""

\* C29: after any sequence of lowering calls, those rejected as usage errors
\* included, every rule stored in the rule table or returned by a lowering
\* call has its Check set.
C29_EveryRuleHasCheck ==
    /\ \A k \in DOMAIN Rules : heap[Rules[k]].Check # NilCheck
    /\ op.kind \in {"make", "pack"} /\ ~op.panic => heap[op.rule].Check # NilCheck

\* the grammar with the table of saved literals as Pack left it
Unsaved == [G EXCEPT !.Saved = InitGrammar.Saved]

\* C30: the Result of a scan does not depend on the scans made on the
\* grammar before it: it is the Result the same scan has when no earlier
\* scan has left a saved literal behind.
C30_ScanForgetsEarlierScans ==
    [][op.kind = "scan" /\ op'.kind = "scan" => Outcome(ScanOf(G, op'.r)) = Outcome(ScanOf(Unsaved, op'.r))]_vars

====
